---- MODULE Spec2Model ----
(***************************************************************************)
(* OpenGathyr: the feed registry and refresh scheduler (RSSService) and    *)
(* the wire protocol adapter (StdioServerTransport + McpServer).           *)
(*                                                                         *)
(* JavaScript runs every callback to completion; an `await` is the only    *)
(* point at which another callback can run.  Each action below is one      *)
(* callback, or the part of an async function between two awaits.          *)
(***************************************************************************)
EXTENDS Integers, Sequences, FiniteSets, Bags, TLC

(***************************************************************************)
(* Bounds of the model.                                                    *)
(***************************************************************************)
MaxFetches == 2        \* parser.parseURL calls in flight at once
MaxSourceItems == 2    \* items one source answer carries
MaxTimers == 3         \* interval timers alive at once
MaxPending == 2        \* request listeners suspended at a handler at once
MaxUnread == 5         \* characters written by the client and not yet consumed
MaxRequests == 2       \* requests one McpClient sends
MaxSpawns == 2         \* server processes one McpClient spawns

(***************************************************************************)
(* Program constants.                                                      *)
(***************************************************************************)
DEFAULT_REFRESH_INTERVAL == 300000
DEFAULT_MAX_ITEMS == 20

\* An optional value: None when the property is undefined, Some(v) otherwise.
None == <<>>
Some(v) == <<v>>

\* A Map / keyed object is a function whose domain is its key set.
Has(m, k) == k \in DOMAIN m
Put(m, k, v) == [x \in DOMAIN m \cup {k} |-> IF x = k THEN v ELSE m[x]]
Del(m, k) == [x \in DOMAIN m \ {k} |-> m[x]]
EmptyMap == [x \in {} |-> 0]

(***************************************************************************)
(* FEED REGISTRY                                                           *)
(***************************************************************************)
Names == {"n1", "n2"}
Urls == {"u1", "u2"}

\* The RSSFeedConfig values callers pass to addFeed (name apart): optional
\* fields left out are None.  maxItems is an unvalidated number.
FeedInputs ==
    { [url |-> "u1", refreshInterval |-> None, maxItems |-> None],
      [url |-> "u2", refreshInterval |-> Some(60000), maxItems |-> Some(1)],
      [url |-> "u1", refreshInterval |-> Some(60000), maxItems |-> Some(-1)] }

\* The configurations tried under each name: the two with a usable maxItems
\* under "n1" (so that "n1" can be updated from one to the other), the one
\* with a negative maxItems under "n2".
InputsFor(n) ==
    IF n = "n1" THEN {in \in FeedInputs : in.maxItems # Some(-1)}
    ELSE {in \in FeedInputs : in.maxItems = Some(-1)}

VARIABLES
    feedConfigs,       \* Map name -> stored RSSFeedConfig
    feeds,             \* FeedsStore: name -> Feed snapshot
    feedKeys,          \* the own keys of the feeds object, in property order
    refreshIntervals,  \* Map name -> timer handle
    liveTimers,        \* interval timers set and not cleared: [id, name, interval]
    fetches,           \* bag of fetchFeed calls suspended at `await parseURL`
    last               \* the operation that ran last, with its outcome

feedVars == <<feedConfigs, feeds, feedKeys, refreshIntervals, liveTimers,
              fetches, last>>

VARIABLES
    buffer,              \* StdioServerTransport.buffer
    isJsonRpc,           \* StdioServerTransport.isJsonRpc
    initializedEmitted,  \* StdioServerTransport.initializedEmitted
    readyTimer,          \* the setTimeout of ready() is armed
    tools,               \* McpServer.tools: name -> Tool
    resources,           \* McpServer.resources: name -> Resource
    capabilities,        \* McpServer.capabilities
    stdoutThrows,        \* stdout.write throws when called
    pending,             \* request listeners suspended at `await handler(params)`
    trace,               \* what the call or callback that ran last did
    stdin                \* input written by the client, not yet read

wireVars == <<buffer, isJsonRpc, initializedEmitted, readyTimer, tools,
              resources, capabilities, stdoutThrows, pending, trace, stdin>>

VARIABLES
    serverProcess,     \* McpClient.serverProcess: 0 is null, n the n-th child
    spawned,           \* the children spawned so far
    isServerReady,     \* McpClient.isServerReady
    readyTimers,       \* the start-up timers armed, by the child of their start()
    requestId,         \* McpClient.requestId
    requestCallbacks,  \* the keys of McpClient.requestCallbacks
    greeting,          \* the child has yet to write its initialize result
    childStdin,        \* the ids of the requests the child has not answered
    childStdout,       \* the lines the child wrote, not yet all delivered
    midLine,           \* the first of them has been delivered in part
    resolved,          \* the ids of the promises resolved, in order
    received,          \* the ids whose whole response line was delivered
    clientLast         \* the client operation that ran last

clientVars == <<serverProcess, spawned, isServerReady, readyTimers, requestId,
                requestCallbacks, greeting, childStdin, childStdout, midLine,
                resolved, received, clientLast>>

vars == <<feedVars, wireVars, clientVars>>

\* origin: who called fetchFeed, for the record of a fetch that settled:
\* addFeed ("add"), the interval callback ("timer") or a direct caller
\* ("manual").  raised: the caller of the operation got the error.  cfg: the
\* argument of addFeed.
NoOp == [op |-> "none", name |-> "", ok |-> TRUE, had |-> FALSE,
         timer |-> 0, overlap |-> 0, origin |-> "", raised |-> FALSE,
         cfg |-> None]

Op(op, name, ok, had, timer, overlap) ==
    [op |-> op, name |-> name, ok |-> ok, had |-> had, timer |-> timer,
     overlap |-> overlap, origin |-> "", raised |-> FALSE, cfg |-> None]

\* What becomes of a rejection of fetchFeed: the explicit caller receives it;
\* the .catch of addFeed (lines 41-43) and of the interval callback (lines
\* 111-113) log it.
Rejected(o, origin) == [o EXCEPT !.origin = origin, !.raised = (origin = "manual")]
Fulfilled(o, origin) == [o EXCEPT !.origin = origin]
Added(o, in) == [o EXCEPT !.cfg = Some(in)]

\* Property order of a plain object whose keys are not integer-like: a new
\* key goes last, an assigned key keeps its place, a deleted key leaves.
KeysAfterSet(keys, k) ==
    IF \E i \in 1..Len(keys) : keys[i] = k THEN keys ELSE Append(keys, k)
KeysAfterDelete(keys, k) == SelectSeq(keys, LAMBDA x : x # k)

\* Array.prototype.slice(0, end) on a sequence.
Slice0(s, end) ==
    LET n == Len(s)
        e == IF end < 0 THEN (IF n + end < 0 THEN 0 ELSE n + end)
             ELSE IF end > n THEN n ELSE end
    IN  SubSeq(s, 1, e)

\* The items of a source answer: k items, in source order.
SourceItems(k) == [i \in 1..k |-> i]

\* Destructuring defaults of addFeed.
WithDefaults(name, in) ==
    [name |-> name,
     url |-> in.url,
     refreshInterval |-> IF in.refreshInterval = None
                         THEN DEFAULT_REFRESH_INTERVAL ELSE in.refreshInterval[1],
     maxItems |-> IF in.maxItems = None THEN DEFAULT_MAX_ITEMS ELSE in.maxItems[1]]

TimerIds == 1..MaxTimers
FreshTimerId(live) ==
    CHOOSE i \in TimerIds :
        /\ i \notin {t.id : t \in live}
        /\ \A j \in TimerIds : j < i => j \in {t.id : t \in live}

\* stopFeedRefresh as it would be without the clearInterval call.
stopFeedRefreshNoClear(live, map, name) ==
    IF Has(map, name) THEN <<live, Del(map, name)>> ELSE <<live, map>>

\* stopFeedRefresh: the pair <<liveTimers, refreshIntervals>> afterwards.
stopFeedRefresh(live, map, name) ==
    IF Has(map, name)
    THEN <<{t \in live : t.id # map[name]}, Del(map, name)>>
    ELSE <<live, map>>

\* startFeedRefresh as it would be if it ignored the configured interval.
startFeedRefreshDefaultInterval(live, map, configs, name) ==
    IF ~Has(configs, name)
    THEN <<live, map>>
    ELSE LET stopped == stopFeedRefresh(live, map, name)
             id == FreshTimerId(stopped[1])
             t == [id |-> id, name |-> name, interval |-> DEFAULT_REFRESH_INTERVAL]
         IN  <<stopped[1] \cup {t}, Put(stopped[2], name, id)>>

\* startFeedRefresh: the pair <<liveTimers, refreshIntervals>> afterwards.
startFeedRefresh(live, map, configs, name) ==
    IF ~Has(configs, name)
    THEN <<live, map>>
    ELSE LET stopped == stopFeedRefresh(live, map, name)
             id == FreshTimerId(stopped[1])
             t == [id |-> id, name |-> name,
                   interval |-> configs[name].refreshInterval]
         IN  <<stopped[1] \cup {t}, Put(stopped[2], name, id)>>

\* The synchronous head of fetchFeed: the call record suspended at the await.
FetchCall(configs, name, origin) ==
    [name |-> name, url |-> configs[name].url,
     maxItems |-> configs[name].maxItems, origin |-> origin]

InFlight(name, origin) ==
    {f \in BagToSet(fetches) : f.name = name /\ f.origin = origin}

CountInFlight(name, origin) ==
    LET S == InFlight(name, origin)
        RECURSIVE Sum(_)
        Sum(T) == IF T = {} THEN 0
                  ELSE LET f == CHOOSE x \in T : TRUE
                       IN  CopiesIn(f, fetches) + Sum(T \ {f})
    IN  Sum(S)

(***************************************************************************)
(* MCP CLIENT                                                              *)
(***************************************************************************)

\* The record of a client operation.  ok: the promise the call returned is
\* resolved (start), the request was accepted (sendRequest).  chunk: the
\* data of a 'data' event.
ClientOp(op, ok, chunk) == [op |-> op, ok |-> ok, chunk |-> chunk]

\* A run of the child's output inside one 'data' event: a whole line with
\* its terminator, the first part of a line, or the rest of a line with its
\* terminator.  id 0: the line has no id.
Piece(part, id) == [part |-> part, id |-> id]

\* The McpClient constructor (lines 11-24).
InitClient ==
    /\ serverProcess = 0
    /\ spawned = 0
    /\ isServerReady = FALSE
    /\ readyTimers = {}
    /\ requestId = 0
    /\ requestCallbacks = {}
    /\ greeting = FALSE
    /\ childStdin = {}
    /\ childStdout = <<>>
    /\ midLine = FALSE
    /\ resolved = <<>>
    /\ received = {}
    /\ clientLast = ClientOp("none", TRUE, <<>>)

\* McpClient.start (lines 29-77), up to the promise it returns.
start ==
    /\ UNCHANGED <<feedVars, wireVars>>
    /\ IF serverProcess # 0
       THEN /\ clientLast' = ClientOp("start", TRUE, <<>>)
            /\ UNCHANGED <<serverProcess, spawned, readyTimers, greeting>>
       ELSE /\ spawned < MaxSpawns
            /\ spawned' = spawned + 1
            /\ serverProcess' = spawned + 1
            /\ readyTimers' = readyTimers \cup {spawned + 1}
            /\ greeting' = TRUE
            /\ clientLast' = ClientOp("start", FALSE, <<>>)
    /\ UNCHANGED <<isServerReady, requestId, requestCallbacks, childStdin,
                   childStdout, midLine, resolved, received>>

\* The setTimeout callback of start (lines 71-75): it resolves the promise
\* of the start() call that armed it.
StartTimeout(t) ==
    /\ UNCHANGED <<feedVars, wireVars>>
    /\ t \in readyTimers
    /\ readyTimers' = readyTimers \ {t}
    /\ isServerReady' = TRUE
    /\ clientLast' = ClientOp("ready", TRUE, <<>>)
    /\ UNCHANGED <<serverProcess, spawned, requestId, requestCallbacks, greeting,
                   childStdin, childStdout, midLine, resolved, received>>

\* McpClient.stop (lines 82-93): the listeners are removed and the child is
\* killed, so what it wrote and was not delivered is never delivered.
stop ==
    /\ UNCHANGED <<feedVars, wireVars>>
    /\ IF serverProcess # 0
       THEN /\ serverProcess' = 0
            /\ isServerReady' = FALSE
            /\ greeting' = FALSE
            /\ childStdin' = {}
            /\ childStdout' = <<>>
            /\ midLine' = FALSE
       ELSE UNCHANGED <<serverProcess, isServerReady, greeting, childStdin,
                        childStdout, midLine>>
    /\ clientLast' = ClientOp("stop", TRUE, <<>>)
    /\ UNCHANGED <<spawned, readyTimers, requestId, requestCallbacks, resolved,
                   received>>

\* sendRequest as it would be if it took the id before it tested the guard.
sendRequestTakesIdFirst ==
    /\ UNCHANGED <<feedVars, wireVars>>
    /\ requestId < MaxRequests
    /\ requestId' = requestId + 1
    /\ IF serverProcess = 0 \/ ~isServerReady
       THEN /\ clientLast' = ClientOp("send", FALSE, <<>>)
            /\ UNCHANGED <<requestCallbacks, childStdin>>
       ELSE /\ requestCallbacks' = requestCallbacks \cup {requestId + 1}
            /\ childStdin' = childStdin \cup {requestId + 1}
            /\ clientLast' = ClientOp("send", TRUE, <<>>)
    /\ UNCHANGED <<serverProcess, spawned, isServerReady, readyTimers, greeting,
                   childStdout, midLine, resolved, received>>

\* McpClient.sendRequest (lines 101-122).
sendRequest ==
    /\ UNCHANGED <<feedVars, wireVars>>
    /\ IF serverProcess = 0 \/ ~isServerReady
       THEN /\ clientLast' = ClientOp("send", FALSE, <<>>)
            /\ UNCHANGED <<requestId, requestCallbacks, childStdin>>
       ELSE /\ requestId < MaxRequests
            /\ requestId' = requestId + 1
            /\ requestCallbacks' = requestCallbacks \cup {requestId + 1}
            /\ childStdin' = childStdin \cup {requestId + 1}
            /\ clientLast' = ClientOp("send", TRUE, <<>>)
    /\ UNCHANGED <<serverProcess, spawned, isServerReady, readyTimers, greeting,
                   childStdout, midLine, resolved, received>>

\* The child answers a request it has read: one line with the request's id.
ChildAnswers(id) ==
    /\ UNCHANGED <<feedVars, wireVars>>
    /\ id \in childStdin
    /\ childStdin' = childStdin \ {id}
    /\ childStdout' = Append(childStdout, id)
    /\ clientLast' = ClientOp("answer", TRUE, <<>>)
    /\ UNCHANGED <<serverProcess, spawned, isServerReady, readyTimers, requestId,
                   requestCallbacks, greeting, midLine, resolved, received>>

\* The child answers the initialize request of its own ready timer: one line
\* without an id.
ChildGreets ==
    /\ UNCHANGED <<feedVars, wireVars>>
    /\ greeting
    /\ greeting' = FALSE
    /\ childStdout' = Append(childStdout, 0)
    /\ clientLast' = ClientOp("answer", TRUE, <<>>)
    /\ UNCHANGED <<serverProcess, spawned, isServerReady, readyTimers, requestId,
                   requestCallbacks, childStdin, midLine, resolved, received>>

\* The data of a 'data' event that ends m of the waiting lines and, if cut,
\* brings the first part of the next.
ChunkOf(m, cut) ==
    [i \in 1..m |-> Piece(IF i = 1 /\ midLine THEN "tail" ELSE "full",
                          childStdout[i])]
        \o (IF cut THEN <<Piece("head", childStdout[m + 1])>> ELSE <<>>)

\* The for loop of the stdout listener (lines 48-66) over the lines of one
\* chunk: <<requestCallbacks, resolved>> afterwards.  A line that is not
\* whole makes JSON.parse throw, which ends the loop.
RECURSIVE Deliver(_, _, _)
Deliver(lines, callbacks, done) ==
    IF lines = <<>> THEN <<callbacks, done>>
    ELSE IF Head(lines).part # "full" THEN <<callbacks, done>>
    ELSE IF Head(lines).id \in callbacks
        THEN Deliver(Tail(lines), callbacks \ {Head(lines).id},
                     Append(done, Head(lines).id))
    ELSE Deliver(Tail(lines), callbacks, done)

\* The stdout 'data' listener (lines 46-67) for one chunk of the child's
\* output.
OnStdoutData(m, cut) ==
    /\ UNCHANGED <<feedVars, wireVars>>
    /\ serverProcess # 0
    /\ m \in 0..Len(childStdout)
    /\ cut => m < Len(childStdout)
    /\ m > 0 \/ (cut /\ ~midLine)
    /\ LET chunk == ChunkOf(m, cut)
           after == Deliver(chunk, requestCallbacks, resolved)
       IN  /\ requestCallbacks' = after[1]
           /\ resolved' = after[2]
           /\ clientLast' = ClientOp("data", TRUE, chunk)
    /\ received' = received \cup ({childStdout[i] : i \in 1..m} \ {0})
    /\ childStdout' = SubSeq(childStdout, m + 1, Len(childStdout))
    /\ midLine' = cut
    /\ UNCHANGED <<serverProcess, spawned, isServerReady, readyTimers, requestId,
                   greeting, childStdin>>

\* Some 'data' event of the child's stdout is handled.
OnStdoutDataStep ==
    \E m \in 0..Len(childStdout), cut \in BOOLEAN : OnStdoutData(m, cut)

SomeChildAnswers == \E id \in 1..MaxRequests : ChildAnswers(id)

NextClient ==
    \/ start
    \/ \E t \in 1..MaxSpawns : StartTimeout(t)
    \/ stop
    \/ sendRequest
    \/ SomeChildAnswers
    \/ ChildGreets
    \/ OnStdoutDataStep

(***************************************************************************)
(* WIRE PROTOCOL ADAPTER                                                   *)
(***************************************************************************)

\* A parsed JSON value, as far as the adapter looks into it.  kind is
\* "object", "null", "falsy" (0, false, "") or "scalar" (any other number,
\* string or true).  A string property that is absent is "".  name is the
\* top-level `name`, pname is `params.name`.
JsonValue(kind, jsonrpc, id, method, type, name, pname) ==
    [kind |-> kind, jsonrpc |-> jsonrpc, id |-> id, method |-> method,
     type |-> type, name |-> name, pname |-> pname]

\* The texts a client writes on one line, by name.
NativeTexts == {"nInit", "nTool", "nGhost", "nZero", "nFive", "nNull",
                "nGhostRes", "nNoName", "nProto", "nUnknownType",
                "nCaps", "nList", "nNoType"}
EnvelopedTexts == {"eInit", "eCaps", "eList", "eTool1", "eTool2", "eRes",
                   "eNote", "eUnknown", "eGhost"}
Texts == NativeTexts \cup EnvelopedTexts \cup {"bad"}

\* JSON.parse of a text that is valid JSON.
JsonOf(text) ==
    CASE text = "nInit"  -> JsonValue("object", "", None, "", "initialize", "", "")
      [] text = "nTool"  -> JsonValue("object", "", None, "", "tool", "get-feed", "")
      [] text = "nGhost" -> JsonValue("object", "", None, "", "tool", "ghost-tool", "")
      [] text = "nZero"  -> JsonValue("falsy", "", None, "", "", "", "")
      [] text = "nFive"  -> JsonValue("scalar", "", None, "", "", "", "")
      [] text = "nNull"  -> JsonValue("null", "", None, "", "", "", "")
      [] text = "nGhostRes" -> JsonValue("object", "", None, "", "resource", "ghost", "")
      [] text = "nNoName" -> JsonValue("object", "", None, "", "tool", "", "")
      [] text = "nProto" -> JsonValue("object", "", None, "", "tool", "constructor", "")
      [] text = "nUnknownType" -> JsonValue("object", "", None, "", "feeds/poll", "", "")
      [] text = "nCaps"  -> JsonValue("object", "", None, "", "capabilities", "", "")
      [] text = "nList"  -> JsonValue("object", "", None, "", "tools/list", "", "")
      [] text = "nNoType" -> JsonValue("object", "", None, "", "", "", "")
      [] text = "eGhost" -> JsonValue("object", "2.0", Some(2), "tool", "", "", "ghost-tool")
      [] text = "eInit"  -> JsonValue("object", "2.0", Some(1), "initialize", "", "", "")
      [] text = "eCaps"  -> JsonValue("object", "2.0", Some(1), "capabilities", "", "", "")
      [] text = "eList"  -> JsonValue("object", "2.0", Some(2), "tools/list", "", "", "")
      [] text = "eRes"   -> JsonValue("object", "2.0", Some(1), "resource", "", "", "feed")
      [] text = "eTool1" -> JsonValue("object", "2.0", Some(1), "tool", "", "", "get-feed")
      [] text = "eTool2" -> JsonValue("object", "2.0", Some(2), "tool", "", "", "get-feed")
      [] text = "eNote"  -> JsonValue("object", "2.0", None, "notifications/initialized", "", "", "")
      [] text = "eUnknown" -> JsonValue("object", "2.0", Some(2), "feeds/poll", "", "", "")

IsJson(text) == text # "bad"

\* The test as it would be if no method counted as a notification.
StartsWithNothing(method) == FALSE

\* method.startsWith('notifications/'), over the method names in use.
StartsWithNotifications(method) == method \in {"notifications/initialized"}

\* One character run of the input stream: a line terminator, white space,
\* a whole text, or the first / second half of a text.
Atom(c, text) == [c |-> c, text |-> text]
NL == Atom("nl", "")
WS == Atom("ws", "")


\* String.prototype.trim on a line.
RECURSIVE TrimLeft(_)
TrimLeft(s) == IF s # <<>> /\ Head(s) = WS THEN TrimLeft(Tail(s)) ELSE s
RECURSIVE TrimRight(_)
TrimRight(s) ==
    IF s # <<>> /\ s[Len(s)] = WS THEN TrimRight(SubSeq(s, 1, Len(s) - 1)) ELSE s
Trim(s) == TrimRight(TrimLeft(s))

\* buffer.indexOf('\n'), 1-based; 0 when there is none.
IndexOfNL(s) ==
    IF \E i \in 1..Len(s) : s[i] = NL
    THEN CHOOSE i \in 1..Len(s) : s[i] = NL /\ \A j \in 1..(i - 1) : s[j] # NL
    ELSE 0

\* JSON.parse(messageLine): <<TRUE, value>> or <<FALSE, _>> on SyntaxError.
NoJson == JsonValue("none", "", None, "", "", "", "")

\* JSON.parse as it would be if it read a line by its first run of
\* characters alone.
JSONparseFirstRun(line) ==
    IF line # <<>> /\ line[1].c \in {"text", "head"} /\ IsJson(line[1].text)
        THEN <<TRUE, JsonOf(line[1].text)>>
    ELSE <<FALSE, NoJson>>

\* JSON.parse of a trimmed line: a text, or its two parts joined.
JSONparse(line) ==
    IF Len(line) = 1 /\ line[1].c = "text" /\ IsJson(line[1].text)
        THEN <<TRUE, JsonOf(line[1].text)>>
    ELSE IF /\ Len(line) = 2 /\ line[1].c = "head" /\ line[2].c = "tail"
            /\ line[1].text = line[2].text /\ IsJson(line[1].text)
        THEN <<TRUE, JsonOf(line[1].text)>>
    ELSE <<FALSE, NoJson>>

\* The conversion of a JSON-RPC message to an MCPRequest.
ToMcpRequest(message) ==
    IF message.method \in {"initialize", "capabilities", "tools/list"}
        THEN JsonValue("object", message.jsonrpc, message.id, "", message.method, "", "")
    ELSE IF message.method \in {"tool", "resource"}
        THEN JsonValue("object", message.jsonrpc, message.id, "", message.method,
                       message.pname, "")
    ELSE JsonValue("object", message.jsonrpc, message.id, "", message.method, "", "")

SyntheticInitialize == JsonValue("object", "", None, "", "initialize", "", "")

\* The name and version the server is constructed with.
ServerInfo == [name |-> "opengathyr", version |-> "1.0.0"]
NoServerInfo == [name |-> "", version |-> ""]

\* An entry of McpServer.tools and of McpServer.resources, and the entries
\* of the capability table written with them.
Tool(name, description, params, handler) ==
    [name |-> name, description |-> description, params |-> params,
     handler |-> handler]
ToolCapability(description, params) ==
    [description |-> description, params |-> params]
Resource(name, description, handler) ==
    [name |-> name, description |-> description, handler |-> handler]
ResourceCapability(description) == [description |-> description]

\* An MCPCapabilities object.
Capabilities(toolTable, resourceTable) ==
    [tools |-> toolTable, resources |-> resourceTable]
NoCapabilities == Capabilities(EmptyMap, EmptyMap)

\* The list as it would be if it had no entries.
toolsListOfNothing(table) == {}

\* The array built for a tools/list request (lines 174-180), as the set of
\* its entries: Object.entries gives one entry per own key.
toolsList(table) ==
    {[name |-> n, description |-> table[n].description,
      parameters |-> table[n].params] : n \in DOMAIN table}

\* What a response carries besides its type and id: the server member, the
\* result list, the capabilities member.
Content(tag, server, list, caps) ==
    [tag |-> tag, server |-> server, list |-> list, capabilities |-> caps]
NoContent == Content("", NoServerInfo, {}, NoCapabilities)

\* Response as it would be if it never copied jsonrpc and id from the request.
ResponseWithoutId(type, req, content, message) ==
    [type |-> type, hasId |-> FALSE, id |-> None, content |-> content,
     message |-> message]

\* An MCPResponse.  hasId: the object has the keys jsonrpc and id.
Response(type, req, content, message) ==
    [type |-> type,
     hasId |-> req.jsonrpc = "2.0",
     id |-> IF req.jsonrpc = "2.0" THEN req.id ELSE None,
     content |-> content,
     message |-> message]

NoResponse == [type |-> "", hasId |-> FALSE, id |-> None, content |-> NoContent,
               message |-> ""]

\* The error response of the listener's catch block.
ErrorResponse(req, message) == Response("error", req, NoContent, message)

\* The tools member of the enveloped initialize result (lines 462-466),
\* as the set of its entries.
capabilityList(caps) ==
    {[name |-> n, description |-> caps.tools[n].description,
      parameters |-> caps.tools[n].params] : n \in DOMAIN caps.tools}

\* The conversion as it would be if the error code told the kind of failure.
EnvelopedCodeByKind(message) ==
    [shape |-> "jsonrpc",
     id |-> IF message.hasId THEN message.id ELSE None,
     member |-> IF message.type = "error" THEN "error"
                ELSE IF message.type \in {"initialize_result",
                          "capabilities_result", "tools/list_result",
                          "tool_result", "resource_result"}
                     THEN "result" ELSE "",
     code |-> IF message.type # "error" THEN 0
              ELSE IF message.message = "not found" THEN -32601 ELSE -32603,
     message |-> IF message.type # "error" THEN ""
                 ELSE IF message.message = "" THEN "Unknown error"
                 ELSE message.message,
     content |-> IF message.type = "initialize_result"
                 THEN Content("serverInfo+capabilities", message.content.server,
                              capabilityList(capabilities), NoCapabilities)
                 ELSE message.content,
     native |-> NoResponse]

\* The JSON-RPC message written for an MCPResponse (lines 448-490).
Enveloped(message) ==
    [shape |-> "jsonrpc",
     id |-> IF message.hasId THEN message.id ELSE None,
     member |-> IF message.type = "error" THEN "error"
                ELSE IF message.type \in {"initialize_result",
                          "capabilities_result", "tools/list_result",
                          "tool_result", "resource_result"}
                     THEN "result" ELSE "",
     code |-> IF message.type = "error" THEN -32603 ELSE 0,
     message |-> IF message.type # "error" THEN ""
                 ELSE IF message.message = "" THEN "Unknown error"
                 ELSE message.message,
     content |-> IF message.type = "initialize_result"
                 THEN Content("serverInfo+capabilities", message.content.server,
                              capabilityList(capabilities), NoCapabilities)
                 ELSE message.content,
     native |-> NoResponse]

Native(message) ==
    [shape |-> "native", id |-> None, member |-> "", code |-> 0,
     message |-> "", content |-> NoContent, native |-> message]

\* send as it would be if it chose the shape by the message's own jsonrpc
\* marker instead of the session's flag.
sendByMessageMarker(message, jsonRpc) ==
    IF message.hasId /\ message.type # "" THEN Enveloped(message) ELSE Native(message)

\* StdioServerTransport.send: the line written to stdout.
send(message, jsonRpc) ==
    IF jsonRpc /\ message.type # "" THEN Enveloped(message) ELSE Native(message)

\* The failure of JSON.stringify or stdout.write inside send.
WriteFailure == "write failed"

\* send as it would be without its try/catch.
trySendUncaught(message, jsonRpc) ==
    [wires |-> IF stdoutThrows THEN <<>> ELSE <<send(message, jsonRpc)>>,
     threw |-> stdoutThrows]

\* transport.send as its caller sees it (lines 446, 499-503): the lines
\* that reached stdout, and whether the call threw.
trySend(message, jsonRpc) ==
    [wires |-> IF stdoutThrows THEN <<>> ELSE <<send(message, jsonRpc)>>,
     threw |-> FALSE]

\* What a thrown value gives for `(error as Error).message`: <<FALSE, _>>
\* when reading it throws a TypeError (null, undefined).
ThrownValues == {"Error", "null"}
MessageOf(thrown, message) ==
    IF thrown = "null" THEN <<FALSE, "">> ELSE <<TRUE, message>>

\* One entry of the trace: the line or continuation handled, the request
\* emitted for it, the response handed to transport.send and the lines
\* written to stdout for it.
Event(kind, text, req, response, wires, outcome, thrown, message, overtook) ==
    [kind |-> kind, text |-> text, req |-> req, response |-> response,
     wires |-> wires, outcome |-> outcome, thrown |-> thrown,
     message |-> message, overtook |-> overtook]

\* The catch block of the request listener (lines 264-282).
Caught(kind, text, req, jsonRpc, thrown, message, overtook) ==
    LET m == MessageOf(thrown, message)
        s == trySend(ErrorResponse(req, m[2]), jsonRpc)
    IN  IF m[1] /\ ~s.threw
        THEN Event(kind, text, req, ErrorResponse(req, m[2]), s.wires,
                   "sent", thrown, message, overtook)
        ELSE Event(kind, text, req, NoResponse, <<>>, "escaped", thrown, message,
                   overtook)

\* transport.send(response) at the end of the try block (line 263): a
\* failure of the call itself would be caught like any other.
Sent(kind, text, req, jsonRpc, response, overtook) ==
    LET s == trySend(response, jsonRpc)
    IN  IF s.threw
        THEN Caught(kind, text, req, jsonRpc, "Error", WriteFailure, overtook)
        ELSE Event(kind, text, req, response, s.wires, "sent", "", "", overtook)

\* this.tools[name] / this.resources[name] on a plain object: an own entry,
\* a property inherited from Object.prototype, or undefined.
ObjectPrototypeKeys == {"constructor"}

\* The lookup as it would be if every name had an entry.
LookupFindsAny(table, name) == "own"

Lookup(table, name) ==
    IF name \in DOMAIN table THEN "own"
    ELSE IF name \in ObjectPrototypeKeys THEN "inherited"
    ELSE "none"

\* How a registered handler behaves when called: it returns a promise
\* ("async"), or throws an Error or null before returning.
HandlerCalls == {"async", "throwError", "throwEmpty", "throwNull"}

\* The request listener up to its first await (lines 107-283): the event
\* it leaves.  outcome "pending" is the suspension at `await handler(params)`.
Listener(kind, text, req, jsonRpc, toolSet, resourceSet, call) ==
    IF req.kind \in {"falsy", "null"}
        THEN Event(kind, text, req, NoResponse, <<>>, "none", "", "", FALSE)
    ELSE IF req.kind # "object"
        THEN Caught(kind, text, req, jsonRpc, "Error", "Invalid request", FALSE)
    ELSE IF req.type = "initialize" \/ req.type = ""
        THEN Sent(kind, text, req, jsonRpc,
                  Response("initialize_result", req,
                           Content("server", ServerInfo, {}, NoCapabilities), ""),
                  FALSE)
    ELSE IF req.type = "capabilities"
        THEN Sent(kind, text, req, jsonRpc,
                  Response("capabilities_result", req,
                           Content("capabilities", NoServerInfo, {}, capabilities),
                           ""),
                  FALSE)
    ELSE IF req.type = "tools/list"
        THEN Sent(kind, text, req, jsonRpc,
                  Response("tools/list_result", req,
                           Content("toolsList", NoServerInfo, toolsList(toolSet),
                                   NoCapabilities), ""),
                  FALSE)
    ELSE IF req.type \in {"tool", "resource"}
        THEN IF req.name = ""
                THEN Caught(kind, text, req, jsonRpc, "Error", "name must be a string", FALSE)
             ELSE IF Lookup(IF req.type = "tool" THEN toolSet ELSE resourceSet,
                            req.name) = "none"
                THEN Caught(kind, text, req, jsonRpc, "Error", "not found", FALSE)
             ELSE IF Lookup(IF req.type = "tool" THEN toolSet ELSE resourceSet,
                            req.name) = "inherited"
                THEN Caught(kind, text, req, jsonRpc, "Error",
                            "handler is not a function", FALSE)
             ELSE IF call = "throwError"
                THEN Caught(kind, text, req, jsonRpc, "Error", "handler failed", FALSE)
             ELSE IF call = "throwEmpty"
                THEN Caught(kind, text, req, jsonRpc, "Error", "", FALSE)
             ELSE IF call = "throwNull"
                THEN Caught(kind, text, req, jsonRpc, "null", "", FALSE)
             ELSE Event(kind, text, req, NoResponse, <<>>, "pending", "", "", FALSE)
    ELSE Caught(kind, text, req, jsonRpc, "Error", "Unknown request type", FALSE)

\* The state the data handler works on.
Session(buf, jsonRpc, initEmitted, waiting, events) ==
    [buffer |-> buf, isJsonRpc |-> jsonRpc, initializedEmitted |-> initEmitted,
     pending |-> waiting, trace |-> events]

\* this.emit('request', req): the listener runs up to its first await.
Emit(st, kind, text, req, toolSet, resourceSet, call) ==
    LET e == Listener(kind, text, req, st.isJsonRpc, toolSet, resourceSet, call)
    IN  [st EXCEPT !.trace = Append(@, e),
                   !.pending = IF e.outcome = "pending" THEN Append(@, req) ELSE @]

Note(st, kind, text) ==
    [st EXCEPT !.trace = Append(@, Event(kind, text, NoJson, NoResponse, <<>>, "none", "", "", FALSE))]

\* The catch block as it would be without the initializedEmitted test.
ParseFailedAlwaysRecovers(st, text, toolSet, resourceSet, call) ==
    [Emit(st, "synthetic", text, SyntheticInitialize, toolSet, resourceSet, call)
        EXCEPT !.initializedEmitted = TRUE]

\* The catch (parseError) block (lines 413-431).
ParseFailed(st, text, toolSet, resourceSet, call) ==
    IF ~st.initializedEmitted
    THEN [Emit(st, "synthetic", text, SyntheticInitialize, toolSet, resourceSet, call)
             EXCEPT !.initializedEmitted = TRUE]
    ELSE Note(st, "dropped", text)

TextOf(line) == IF line # <<>> /\ line[1].c \in {"text", "head"} THEN line[1].text ELSE ""

\* One non-empty line (lines 332-431): <<session afterwards, the handler
\* returned>>.
HandleLine(st, line, toolSet, resourceSet, call) ==
    LET parsed == JSONparse(line)
        message == parsed[2]
        text == TextOf(line)
    IN  IF ~parsed[1] \/ message.kind = "null"
            THEN <<ParseFailed(st, text, toolSet, resourceSet, call), FALSE>>
        ELSE IF message.jsonrpc = "2.0"
            THEN LET st1 == [st EXCEPT !.isJsonRpc = TRUE]
                 IN  IF message.method # "" /\ StartsWithNotifications(message.method)
                     THEN <<Note(st1, "notification", text), TRUE>>
                     ELSE <<[Emit(st1, "request", text, ToMcpRequest(message),
                                  toolSet, resourceSet, call)
                               EXCEPT !.initializedEmitted =
                                   @ \/ message.method = "initialize"],
                            FALSE>>
        ELSE <<[Emit(st, "request", text, message, toolSet, resourceSet, call)
                  EXCEPT !.initializedEmitted = @ \/ message.type = "initialize"],
               FALSE>>

\* The while loop of the data handler (lines 322-433).
RECURSIVE DataLoop(_, _, _, _)
DataLoop(st, toolSet, resourceSet, call) ==
    LET i == IndexOfNL(st.buffer)
    IN  IF i = 0 THEN st
        ELSE LET line == Trim(SubSeq(st.buffer, 1, i - 1))
                 st1 == [st EXCEPT !.buffer = SubSeq(@, i + 1, Len(@))]
             IN  IF line = <<>>
                 THEN DataLoop(Note(st1, "empty", ""), toolSet, resourceSet, call)
                 ELSE LET r == HandleLine(st1, line, toolSet, resourceSet, call)
                      IN  IF r[2] THEN r[1]
                          ELSE DataLoop(r[1], toolSet, resourceSet, call)

\* The arguments of the registration calls.
ToolNames == {"get-feed", "list-feeds"}
ResourceNames == {"feed"}
ToolArguments == {<<"d1", "p1", "h1">>, <<"d1", "p1", "h2">>, <<"d2", "p2", "h2">>}
ResourceArguments == {<<"d1", "h1">>, <<"d2", "h2">>}

\* The tables of a server on which the program has registered one tool and
\* one resource.
RegisteredTools == [n \in {"get-feed"} |-> Tool(n, "d1", "p1", "h1")]
RegisteredResources == [n \in {"feed"} |-> Resource(n, "d1", "h1")]
RegisteredCapabilities ==
    Capabilities([n \in {"get-feed"} |-> ToolCapability("d1", "p1")],
                 [n \in {"feed"} |-> ResourceCapability("d1")])

\* The transport after construction, connected to the server.
InitTransport ==
    /\ buffer = <<>>
    /\ isJsonRpc = FALSE
    /\ initializedEmitted = FALSE
    /\ readyTimer = TRUE
    /\ stdoutThrows = FALSE
    /\ pending = <<>>
    /\ trace = <<>>
    /\ stdin = <<>>

InitWire ==
    /\ InitTransport
    /\ tools = RegisteredTools
    /\ resources = RegisteredResources
    /\ capabilities = RegisteredCapabilities

\* options.capabilities: absent, a fresh empty object, or an object that
\* already has an entry.
CapabilityOptions ==
    {None, Some(NoCapabilities),
     Some(Capabilities([n \in {"old-tool"} |-> ToolCapability("d1", "p1")],
                       EmptyMap))}

\* The McpServer constructor (lines 47-57), beside a feed registry that
\* holds nothing.
InitServer ==
    /\ feedConfigs = EmptyMap
    /\ feeds = EmptyMap
    /\ feedKeys = <<>>
    /\ refreshIntervals = EmptyMap
    /\ liveTimers = {}
    /\ fetches = EmptyBag
    /\ last = NoOp
    /\ InitClient
    /\ InitTransport
    /\ tools = EmptyMap
    /\ resources = EmptyMap
    /\ \E given \in CapabilityOptions :
          capabilities = IF given = None THEN NoCapabilities ELSE given[1]

\* The trace of a registration call: the name, and whether it had an entry.
Registered(kind, name, had) ==
    Event(kind, name, NoJson, NoResponse, <<>>,
          IF had THEN "replaced" ELSE "added", "", "", FALSE)

\* tool as it would be if a name that is registered kept its first entry.
toolKeepsFirst(name, description, params, handler) ==
    /\ UNCHANGED <<feedVars, clientVars>>
    /\ tools' = IF Has(tools, name) THEN tools
                ELSE Put(tools, name, Tool(name, description, params, handler))
    /\ capabilities' = [capabilities EXCEPT !.tools =
                           IF Has(@, name) THEN @
                           ELSE Put(@, name, ToolCapability(description, params))]
    /\ trace' = <<Registered("tool", name, Has(tools, name))>>
    /\ UNCHANGED <<buffer, isJsonRpc, initializedEmitted, readyTimer, resources,
                   stdoutThrows, pending, stdin>>

\* McpServer.tool (lines 59-77).
tool(name, description, params, handler) ==
    /\ UNCHANGED <<feedVars, clientVars>>
    /\ tools' = Put(tools, name, Tool(name, description, params, handler))
    /\ capabilities' = [capabilities EXCEPT !.tools =
                           Put(@, name, ToolCapability(description, params))]
    /\ trace' = <<Registered("tool", name, Has(tools, name))>>
    /\ UNCHANGED <<buffer, isJsonRpc, initializedEmitted, readyTimer, resources,
                   stdoutThrows, pending, stdin>>

\* McpServer.resource (lines 79-95).
resource(name, description, handler) ==
    /\ UNCHANGED <<feedVars, clientVars>>
    /\ resources' = Put(resources, name, Resource(name, description, handler))
    /\ capabilities' = [capabilities EXCEPT !.resources =
                           Put(@, name, ResourceCapability(description))]
    /\ trace' = <<Registered("resource", name, Has(resources, name))>>
    /\ UNCHANGED <<buffer, isJsonRpc, initializedEmitted, readyTimer, tools,
                   stdoutThrows, pending, stdin>>

\* stdout stops accepting writes (the pipe is closed), or accepts them again.
StdoutBreaks ==
    /\ UNCHANGED <<feedVars, clientVars>>
    /\ ~stdoutThrows
    /\ stdoutThrows' = TRUE
    /\ trace' = <<>>
    /\ UNCHANGED <<buffer, isJsonRpc, initializedEmitted, readyTimer, tools,
                   resources, capabilities, pending, stdin>>

StdoutRecovers ==
    /\ UNCHANGED <<feedVars, clientVars>>
    /\ stdoutThrows
    /\ stdoutThrows' = FALSE
    /\ trace' = <<>>
    /\ UNCHANGED <<buffer, isJsonRpc, initializedEmitted, readyTimer, tools,
                   resources, capabilities, pending, stdin>>

\* The stdin 'data' callback for one chunk (lines 315-439).  `call` is how
\* the handlers invoked while it runs behave.
OnData(chunk, call) ==
    /\ UNCHANGED <<feedVars, clientVars>>
    /\ LET st == DataLoop(Session(buffer \o chunk, isJsonRpc, initializedEmitted,
                                  pending, <<>>),
                          tools, resources, call)
       IN  /\ Len(st.pending) <= MaxPending
           /\ buffer' = st.buffer
           /\ isJsonRpc' = st.isJsonRpc
           /\ initializedEmitted' = st.initializedEmitted
           /\ pending' = st.pending
           /\ trace' = st.trace
           /\ UNCHANGED <<readyTimer, tools, resources, capabilities, stdoutThrows>>

\* The setTimeout callback of ready() (lines 512-515).
ReadyTimeout ==
    /\ UNCHANGED <<feedVars, clientVars>>
    /\ /\ readyTimer
       /\ readyTimer' = FALSE
       /\ LET st == Emit(Session(buffer, isJsonRpc, initializedEmitted, pending, <<>>),
                         "synthetic", "", SyntheticInitialize, tools, resources, "async")
          IN  /\ trace' = st.trace
              /\ pending' = st.pending
       /\ initializedEmitted' = TRUE
       /\ UNCHANGED <<buffer, isJsonRpc, tools, resources, capabilities,
                      stdoutThrows, stdin>>

\* How the promise of a handler settles.
Settlements == {"resolve", "rejectError", "rejectEmpty", "rejectNull"}

RemoveAt(s, i) == SubSeq(s, 1, i - 1) \o SubSeq(s, i + 1, Len(s))

\* The listener resumes after `await handler(params)` (lines 209-224,
\* 237-252, 257-282).
HandlerSettles(i, how) ==
    /\ UNCHANGED <<feedVars, clientVars>>
    /\ /\ i \in 1..Len(pending)
       /\ LET req == pending[i]
              e == IF how = "resolve"
                   THEN Sent("settled", "", req, isJsonRpc,
                             Response(IF req.type = "tool" THEN "tool_result"
                                      ELSE "resource_result", req,
                                      Content("handlerResult", NoServerInfo, {},
                                              NoCapabilities), ""),
                             i > 1)
                   ELSE Caught("settled", "", req, isJsonRpc,
                               IF how = "rejectNull" THEN "null" ELSE "Error",
                               IF how = "rejectError" THEN "handler failed" ELSE "",
                               i > 1)
          IN  trace' = <<e>>
       /\ pending' = RemoveAt(pending, i)
       /\ UNCHANGED <<buffer, isJsonRpc, initializedEmitted, readyTimer, tools,
                   resources, capabilities, stdoutThrows, stdin>>

\* A chunk that is one complete line.
Line(text) == <<Atom("text", text), NL>>

\* A client whose every write is one complete line, read as one chunk.
LineAtATime(text, call) ==
    /\ stdin = <<>>
    /\ OnData(Line(text), call)
    /\ UNCHANGED stdin

NextWire ==
    \/ \E t \in Texts, call \in HandlerCalls : LineAtATime(t, call)
    \/ ReadyTimeout
    \/ \E i \in 1..MaxPending, how \in Settlements : HandlerSettles(i, how)

\* The lines that make the adapter send each kind of response: the result
\* of initialize, of a tool and of a resource in either dialect, the error
\* for a name that is not registered, a notification, and a line that is
\* not JSON.
PipeTexts == {"nInit", "nTool", "nGhost", "eInit", "eTool1", "eRes", "eGhost",
              "eNote", "bad"}

\* The adapter writing to a pipe that can break.
NextBrokenPipe ==
    \/ \E t \in PipeTexts, call \in HandlerCalls : LineAtATime(t, call)
    \/ ReadyTimeout
    \/ \E i \in 1..MaxPending, how \in Settlements : HandlerSettles(i, how)
    \/ StdoutBreaks
    \/ StdoutRecovers

\* A server on which tools and resources are registered while clients ask
\* what it offers.
ServerTexts == {"nInit", "nNoType", "eInit", "nCaps", "eCaps", "nList", "eList"}
NextServer ==
    \/ \E n \in ToolNames, a \in ToolArguments : tool(n, a[1], a[2], a[3])
    \/ \E n \in ResourceNames, a \in ResourceArguments : resource(n, a[1], a[2])
    \/ \E t \in ServerTexts : LineAtATime(t, "async")
    \/ ReadyTimeout

\* The runs of characters a client writes at once: a complete line, a blank
\* line, the first half of a line, its second half with the terminator.
FramingTexts == {"nInit", "nTool", "eNote", "eUnknown", "bad"}
SplitTexts == {"eUnknown"}
Pieces ==
    {Line(t) : t \in FramingTexts}
        \cup {<<WS, NL>>}
        \cup {<<Atom("head", t)>> : t \in SplitTexts}
        \cup {<<Atom("tail", t), NL>> : t \in SplitTexts}

\* The client writes to the pipe; what is written waits there until read.
ClientWrites(piece) ==
    /\ Len(buffer) + Len(stdin) + Len(piece) <= MaxUnread
    /\ stdin' = stdin \o piece
    /\ trace' = <<>>
    /\ UNCHANGED <<buffer, isJsonRpc, initializedEmitted, readyTimer, tools,
                   resources, capabilities, stdoutThrows, pending>>
    /\ UNCHANGED <<feedVars, clientVars>>

\* stdin becomes readable: everything that waits is read as one chunk.
StdinReadable(call) ==
    /\ stdin # <<>>
    /\ OnData(stdin, call)
    /\ stdin' = <<>>

NextFraming ==
    \/ \E piece \in Pieces : ClientWrites(piece)
    \/ StdinReadable("async")
    \/ ReadyTimeout
    \/ \E i \in 1..MaxPending : HandlerSettles(i, "resolve")

InitFeeds ==
    /\ feedConfigs = EmptyMap
    /\ feeds = EmptyMap
    /\ feedKeys = <<>>
    /\ refreshIntervals = EmptyMap
    /\ liveTimers = {}
    /\ fetches = EmptyBag
    /\ last = NoOp

\* addFeed as it would be without the initial fetch.
addFeedWithoutFetch(name, in) ==
    /\ UNCHANGED <<wireVars, clientVars>>
    /\ LET had == Has(feedConfigs, name)
           s1 == IF had THEN stopFeedRefresh(liveTimers, refreshIntervals, name)
                 ELSE <<liveTimers, refreshIntervals>>
           configs == Put(feedConfigs, name, WithDefaults(name, in))
           s2 == startFeedRefresh(s1[1], s1[2], configs, name)
       IN  /\ BagCardinality(fetches) < MaxFetches
           /\ Cardinality(liveTimers) < MaxTimers
           /\ feedConfigs' = configs
           /\ liveTimers' = s2[1]
           /\ refreshIntervals' = s2[2]
           /\ last' = Added(Op("add", name, TRUE, had, s2[2][name], 0), in)
           /\ UNCHANGED <<feeds, feedKeys, fetches>>

\* addFeed(feedConfig)
addFeed(name, in) ==
    /\ UNCHANGED <<wireVars, clientVars>>
    /\ LET had == Has(feedConfigs, name)
           s1 == IF had THEN stopFeedRefresh(liveTimers, refreshIntervals, name)
                 ELSE <<liveTimers, refreshIntervals>>
           configs == Put(feedConfigs, name, WithDefaults(name, in))
           s2 == startFeedRefresh(s1[1], s1[2], configs, name)
       IN  /\ BagCardinality(fetches) < MaxFetches
           /\ Cardinality(liveTimers) < MaxTimers
           /\ feedConfigs' = configs
           /\ fetches' = fetches (+) SetToBag({FetchCall(configs, name, "add")})
           /\ liveTimers' = s2[1]
           /\ refreshIntervals' = s2[2]
           /\ last' = Added(Op("add", name, TRUE, had, s2[2][name], 0), in)
           /\ UNCHANGED <<feeds, feedKeys>>

\* removeFeed as it would be without `delete this.feeds[feedName]`.
removeFeedKeepsSnapshot(name) ==
    /\ UNCHANGED <<wireVars, clientVars>>
    /\ IF ~Has(feedConfigs, name)
       THEN /\ last' = Op("remove", name, TRUE, FALSE, 0, 0)
            /\ UNCHANGED <<feedConfigs, feeds, feedKeys, refreshIntervals, liveTimers,
                           fetches>>
       ELSE LET s == stopFeedRefresh(liveTimers, refreshIntervals, name)
            IN  /\ liveTimers' = s[1]
                /\ refreshIntervals' = s[2]
                /\ feedConfigs' = Del(feedConfigs, name)
                /\ last' = Op("remove", name, TRUE, TRUE, 0, 0)
                /\ UNCHANGED <<feeds, feedKeys, fetches>>

\* removeFeed as it would be without the stopFeedRefresh call.
removeFeedKeepsTimer(name) ==
    /\ UNCHANGED <<wireVars, clientVars>>
    /\ IF ~Has(feedConfigs, name)
       THEN /\ last' = Op("remove", name, TRUE, FALSE, 0, 0)
            /\ UNCHANGED <<feedConfigs, feeds, feedKeys, refreshIntervals, liveTimers,
                           fetches>>
       ELSE /\ feedConfigs' = Del(feedConfigs, name)
            /\ feeds' = Del(feeds, name)
            /\ feedKeys' = KeysAfterDelete(feedKeys, name)
            /\ last' = Op("remove", name, TRUE, TRUE, 0, 0)
            /\ UNCHANGED <<refreshIntervals, liveTimers, fetches>>

\* removeFeed as it would be if it cancelled the fetches of the name.
removeFeedCancelsFetches(name) ==
    /\ UNCHANGED <<wireVars, clientVars>>
    /\ IF ~Has(feedConfigs, name)
       THEN /\ last' = Op("remove", name, TRUE, FALSE, 0, 0)
            /\ UNCHANGED <<feedConfigs, feeds, feedKeys, refreshIntervals, liveTimers,
                           fetches>>
       ELSE LET s == stopFeedRefresh(liveTimers, refreshIntervals, name)
            IN  /\ liveTimers' = s[1]
                /\ refreshIntervals' = s[2]
                /\ feedConfigs' = Del(feedConfigs, name)
                /\ feeds' = Del(feeds, name)
                /\ feedKeys' = KeysAfterDelete(feedKeys, name)
                /\ last' = Op("remove", name, TRUE, TRUE, 0, 0)
                /\ fetches' = [f \in {g \in DOMAIN fetches : g.name # name} |->
                                  fetches[f]]

\* removeFeed(feedName)
removeFeed(name) ==
    /\ UNCHANGED <<wireVars, clientVars>>
    /\ IF ~Has(feedConfigs, name)
       THEN /\ last' = Op("remove", name, TRUE, FALSE, 0, 0)
            /\ UNCHANGED <<feedConfigs, feeds, feedKeys, refreshIntervals, liveTimers,
                           fetches>>
       ELSE LET s == stopFeedRefresh(liveTimers, refreshIntervals, name)
            IN  /\ liveTimers' = s[1]
                /\ refreshIntervals' = s[2]
                /\ feedConfigs' = Del(feedConfigs, name)
                /\ feeds' = Del(feeds, name)
                /\ feedKeys' = KeysAfterDelete(feedKeys, name)
                /\ last' = Op("remove", name, TRUE, TRUE, 0, 0)
                /\ UNCHANGED fetches

\* fetchFeed as it would be if it returned quietly for an unregistered name.
refreshQuietly(name) ==
    /\ UNCHANGED <<wireVars, clientVars>>
    /\ IF ~Has(feedConfigs, name)
       THEN /\ last' = Op("refresh", name, TRUE, FALSE, 0, 0)
            /\ UNCHANGED <<feedConfigs, feeds, feedKeys, refreshIntervals, liveTimers,
                           fetches>>
       ELSE /\ BagCardinality(fetches) < MaxFetches
            /\ fetches' = fetches (+) SetToBag({FetchCall(feedConfigs, name, "manual")})
            /\ last' = Op("refresh", name, TRUE, TRUE, 0, 0)
            /\ UNCHANGED <<feedConfigs, feeds, feedKeys, refreshIntervals, liveTimers>>

\* fetchFeed(feedName) called directly: refresh(name).
refresh(name) ==
    /\ UNCHANGED <<wireVars, clientVars>>
    /\ IF ~Has(feedConfigs, name)
       THEN /\ last' = Rejected(Op("refresh", name, FALSE, FALSE, 0, 0), "manual")
            /\ UNCHANGED <<feedConfigs, feeds, feedKeys, refreshIntervals, liveTimers,
                           fetches>>
       ELSE /\ BagCardinality(fetches) < MaxFetches
            /\ fetches' = fetches (+) SetToBag({FetchCall(feedConfigs, name, "manual")})
            /\ last' = Op("refresh", name, TRUE, TRUE, 0, 0)
            /\ UNCHANGED <<feedConfigs, feeds, feedKeys, refreshIntervals, liveTimers>>

\* The timer callback as it would be if it skipped a tick while a refresh
\* started by an earlier tick is still in flight.
TimerTickSkipsWhileBusy(t) ==
    /\ UNCHANGED <<wireVars, clientVars>>
    /\ /\ t \in liveTimers
       /\ IF ~Has(feedConfigs, t.name)
          THEN /\ last' = Op("tick", t.name, FALSE, FALSE, t.id, 0)
               /\ UNCHANGED fetches
          ELSE /\ BagCardinality(fetches) < MaxFetches
               /\ fetches' = IF CountInFlight(t.name, "timer") > 0 THEN fetches
                             ELSE fetches (+) SetToBag({FetchCall(feedConfigs, t.name, "timer")})
               /\ last' = Op("tick", t.name, TRUE, TRUE, t.id,
                             CountInFlight(t.name, "timer"))
       /\ UNCHANGED <<feedConfigs, feeds, feedKeys, refreshIntervals, liveTimers>>

\* The setInterval callback of a live timer.
TimerTick(t) ==
    /\ UNCHANGED <<wireVars, clientVars>>
    /\ /\ t \in liveTimers
       /\ IF ~Has(feedConfigs, t.name)
          THEN /\ last' = Op("tick", t.name, FALSE, FALSE, t.id, 0)
               /\ UNCHANGED fetches
          ELSE /\ BagCardinality(fetches) < MaxFetches
               /\ fetches' = fetches (+) SetToBag({FetchCall(feedConfigs, t.name, "timer")})
               /\ last' = Op("tick", t.name, TRUE, TRUE, t.id,
                             CountInFlight(t.name, "timer"))
       /\ UNCHANGED <<feedConfigs, feeds, feedKeys, refreshIntervals, liveTimers>>

\* parseURL resolves with k items: the rest of fetchFeed's try block.
FetchSucceeds(f, k) ==
    /\ UNCHANGED <<wireVars, clientVars>>
    /\ /\ BagIn(f, fetches)
       /\ fetches' = fetches (-) SetToBag({f})
       /\ feeds' = Put(feeds, f.name,
                        [items |-> Slice0(SourceItems(k), f.maxItems),
                         feedUrl |-> f.url])
       /\ feedKeys' = KeysAfterSet(feedKeys, f.name)
       /\ last' = Fulfilled(Op("fetched", f.name, TRUE, Has(feedConfigs, f.name), 0, 0),
                            f.origin)
       /\ UNCHANGED <<feedConfigs, refreshIntervals, liveTimers>>

\* The catch block as it would be if it discarded the cached snapshot.
FetchFailsDropsSnapshot(f) ==
    /\ UNCHANGED <<wireVars, clientVars>>
    /\ /\ BagIn(f, fetches)
       /\ fetches' = fetches (-) SetToBag({f})
       /\ feeds' = Del(feeds, f.name)
       /\ feedKeys' = KeysAfterDelete(feedKeys, f.name)
       /\ last' = Rejected(Op("fetched", f.name, FALSE, Has(feedConfigs, f.name), 0, 0),
                           f.origin)
       /\ UNCHANGED <<feedConfigs, refreshIntervals, liveTimers>>

\* parseURL rejects: the catch block logs and rethrows.
FetchFails(f) ==
    /\ UNCHANGED <<wireVars, clientVars>>
    /\ /\ BagIn(f, fetches)
       /\ fetches' = fetches (-) SetToBag({f})
       /\ last' = Rejected(Op("fetched", f.name, FALSE, Has(feedConfigs, f.name), 0, 0),
                           f.origin)
       /\ UNCHANGED <<feedConfigs, feeds, feedKeys, refreshIntervals, liveTimers>>

NextFeeds ==
    \/ \E n \in Names : \E in \in InputsFor(n) : addFeed(n, in)
    \/ \E n \in Names : removeFeed(n)
    \/ \E n \in Names : refresh(n)
    \/ \E t \in liveTimers : TimerTick(t)
    \/ \E f \in BagToSet(fetches), k \in 0..MaxSourceItems : FetchSucceeds(f, k)
    \/ \E f \in BagToSet(fetches) : FetchFails(f)

\* A client that registers names in the order of NameOrder, only while they
\* are not registered, and unregisters them in the reverse order: the names
\* registered at any time were registered in the order of NameOrder, and
\* every addFeed is the registration of a new name.
NameOrder == <<"n1", "n2">>
Position(n) == CHOOSE i \in 1..Len(NameOrder) : NameOrder[i] = n

RegisterNew(n, in) ==
    /\ ~Has(feedConfigs, n)
    /\ \A m \in Names : Position(m) < Position(n) => Has(feedConfigs, m)
    /\ addFeed(n, in)

UnregisterLast(n) ==
    /\ \A m \in Names : Position(m) > Position(n) => ~Has(feedConfigs, m)
    /\ removeFeed(n)

NextNewNames ==
    \/ \E n \in Names : \E in \in InputsFor(n) : RegisterNew(n, in)
    \/ \E n \in Names : UnregisterLast(n)
    \/ \E n \in Names : refresh(n)
    \/ \E t \in liveTimers : TimerTick(t)
    \/ \E f \in BagToSet(fetches), k \in 0..MaxSourceItems : FetchSucceeds(f, k)
    \/ \E f \in BagToSet(fetches) : FetchFails(f)

\* A client that registers each name with the url "u1" and updates it once
\* to the url "u2", while no timer fires and nobody refreshes by hand: the
\* fetches of a name are those of its addFeed calls, one per url, and the one
\* started last reads the url of the stored FeedConfig.
UpdateInTurn(n, in) ==
    /\ in.maxItems # Some(-1)
    /\ IF Has(feedConfigs, n)
       THEN feedConfigs[n].url = "u1" /\ in.url = "u2"
       ELSE in.url = "u1"
    /\ addFeed(n, in)

NextUpdates ==
    \/ \E n \in Names, in \in FeedInputs : UpdateInTurn(n, in)
    \/ \E f \in BagToSet(fetches), k \in 0..MaxSourceItems : FetchSucceeds(f, k)
    \/ \E f \in BagToSet(fetches) : FetchFails(f)

\* A server one of whose feeds has a source that never answers: the fetches
\* of StalledName stay in flight for ever, the sources of the other feeds
\* answer, and the client keeps calling a tool.
StalledName == "n1"
StalledTexts == {"nTool", "eList"}

\* The source as it would answer if parseURL calls were served one feed at a
\* time, in the order of NameOrder.
SourceAnswersInTurn(f, k) ==
    /\ f.name # StalledName
    /\ \A g \in BagToSet(fetches) : Position(g.name) >= Position(f.name)
    /\ FetchSucceeds(f, k)

SourceAnswers(f, k) ==
    /\ f.name # StalledName
    /\ FetchSucceeds(f, k)

SomeSourceAnswers ==
    \E f \in BagToSet(fetches), k \in 0..MaxSourceItems : SourceAnswers(f, k)

SomeHandlerSettles ==
    \E i \in 1..MaxPending : HandlerSettles(i, "resolve")

NextStalled ==
    \/ \E n \in Names : \E in \in InputsFor(n) : RegisterNew(n, in)
    \/ \E t \in liveTimers : TimerTick(t)
    \/ SomeSourceAnswers
    \/ \E t \in StalledTexts : LineAtATime(t, "async")
    \/ SomeHandlerSettles

Init == InitFeeds /\ InitWire /\ InitClient

\* The feed registry on its own, and the protocol adapter on its own.
SpecFeeds == Init /\ [][NextFeeds]_vars
SpecNewNames == Init /\ [][NextNewNames]_vars
SpecUpdates == Init /\ [][NextUpdates]_vars

\* The event loop runs every callback that is ready: an answer of a source
\* is eventually handled, and so is the settlement of a handler's promise.
SpecStalled ==
    /\ Init /\ [][NextStalled]_vars
    /\ WF_vars(SomeSourceAnswers)
    /\ WF_vars(SomeHandlerSettles)
SpecWire == Init /\ [][NextWire]_vars

\* The client on its own; and with an event loop that runs every callback
\* that is ready and a child that answers what it has read.
SpecClient == Init /\ [][NextClient]_vars
SpecClientLive ==
    /\ Init /\ [][NextClient]_vars
    /\ WF_vars(SomeChildAnswers)
    /\ WF_vars(OnStdoutDataStep)
SpecBrokenPipe == Init /\ [][NextBrokenPipe]_vars
SpecServer == InitServer /\ [][NextServer]_vars
SpecFraming == Init /\ [][NextFraming]_vars

(***************************************************************************)
(* Properties of the feed registry.                                        *)
(***************************************************************************)
\* this.feeds[feedName] || null on a plain object: an own snapshot, a member
\* inherited from Object.prototype, or null.
getFeed(name) ==
    IF Has(feeds, name) THEN Some(feeds[name])
    ELSE IF name \in ObjectPrototypeKeys THEN Some([inherited |-> name])
    ELSE None

\* this.feeds[feedName]?.items || []
getFeedItems(name) == IF Has(feeds, name) THEN feeds[name].items ELSE <<>>

\* { ...this.feeds }
getAllFeeds == feeds

\* The names the list-feeds tool lists: Object.entries(getAllFeeds()).
listFeeds == {feedKeys[i] : i \in 1..Len(feedKeys)}

\* The names a caller may ask for.
AskedNames == Names \cup ObjectPrototypeKeys

TimersOf(name) == {t \in liveTimers : t.name = name}

\* The queries tried.  "eszett" stands for the one-character string U+00DF,
\* which is lower case and whose upper case is the two characters "SS".
Queries == {"rss", "RSS", "Rss", "zzz", "ZZZ", "eszett", "ss", "SS"}

\* String.prototype.toLowerCase on the queries.
toLowerCase(q) ==
    CASE q \in {"RSS", "Rss"} -> "rss"
      [] q = "ZZZ" -> "zzz"
      [] q = "SS" -> "ss"
      [] OTHER -> q

\* String.prototype.toUpperCase on the queries.
toUpperCase(q) ==
    CASE q \in {"rss", "Rss"} -> "RSS"
      [] q = "zzz" -> "ZZZ"
      [] q \in {"ss", "eszett"} -> "SS"
      [] OTHER -> q

\* The lower-cased strings, among the queries, that occur in the lower-cased
\* title, content or snippet of a source item: the odd items read
\* "RSS news", the even ones "Stra" \o U+00DF \o "e".
Mentions(i) == IF i % 2 = 1 THEN {"rss"} ELSE {"eszett"}

\* The item objects of a snapshot: <<name, i>> is the i-th source item as
\* stored under name.
ItemsOf(name) == [j \in 1..Len(feeds[name].items) |-> <<name, feeds[name].items[j]>>]

\* titleMatch || contentMatch for a lower-cased query.
Includes(item, lq) == lq \in Mentions(item[2])

RECURSIVE ScanFeeds(_, _)
ScanFeeds(keys, lq) ==
    IF keys = <<>> THEN <<>>
    ELSE SelectSeq(ItemsOf(Head(keys)), LAMBDA item : Includes(item, lq))
             \o ScanFeeds(Tail(keys), lq)

\* searchFeeds as it would be if it compared the query as typed.
searchFeedsAsTyped(query) == ScanFeeds(feedKeys, query)

\* searchFeeds(query): Object.values(this.feeds) in property order.
searchFeeds(query) == ScanFeeds(feedKeys, toLowerCase(query))

C7_SnapshotAfterRefreshAndRemove ==
    /\ (last.op = "fetched" /\ last.ok) => getFeed(last.name) # None
    /\ last.op = "remove" =>
          /\ getFeed(last.name) = None
          /\ ~Has(feedConfigs, last.name)
          /\ ~Has(refreshIntervals, last.name)
          /\ TimersOf(last.name) = {}

\* C7 (amended): right after a successful refresh(name) getSnapshot(name) is
\* non-null; right after remove(name) returns name has no config and no
\* timer, and getSnapshot(name) is null if name had a config when remove was
\* called.
C7_SnapshotAfterRefreshAndRegisteredRemove ==
    /\ (last.op = "fetched" /\ last.ok) => getFeed(last.name) # None
    /\ last.op = "remove" =>
          /\ last.had => getFeed(last.name) = None
          /\ ~Has(feedConfigs, last.name)
          /\ ~Has(refreshIntervals, last.name)
          /\ TimersOf(last.name) = {}

\* remove(name) has just removed a registered feed whose fetch is in flight.
C7_Witness ==
    /\ last.op = "remove" /\ last.had
    /\ \E f \in BagToSet(fetches) : f.name = last.name

\* C8: every cached snapshot has at most as many items as the maxItems of
\* the config currently stored under the same name.
C8_SnapshotWithinCurrentMaxItems ==
    \A n \in DOMAIN feeds \cap DOMAIN feedConfigs :
        Len(feeds[n].items) <= feedConfigs[n].maxItems

\* C9: the names holding a live timer are exactly the names with a config,
\* and no name has more than one live timer (the one the map records).
C9_OneLiveTimerPerRegisteredName ==
    /\ {t.name : t \in liveTimers} = DOMAIN feedConfigs
    /\ DOMAIN refreshIntervals = DOMAIN feedConfigs
    /\ \A n \in Names : Cardinality(TimersOf(n)) <= 1
    /\ \A n \in DOMAIN refreshIntervals :
          TimersOf(n) = {t \in liveTimers : t.id = refreshIntervals[n]}

\* A registered feed has just been updated while another feed is registered.
C9_Witness ==
    last.op = "add" /\ last.had /\ Cardinality(DOMAIN feedConfigs) = 2

\* C10: a timer-triggered refresh only ever starts from the name's current
\* timer, and only for a name that has a config: a cancelled timer never
\* fires.
C10_OnlyCurrentTimerFires ==
    last.op = "tick" =>
        /\ last.ok
        /\ Has(feedConfigs, last.name)
        /\ Has(refreshIntervals, last.name)
        /\ refreshIntervals[last.name] = last.timer

\* The timer of an updated feed ticks while a fetch of the replaced
\* configuration is still in flight.
C10_Witness ==
    /\ last.op = "tick" /\ last.ok
    /\ \E f \in BagToSet(fetches) :
          f.name = last.name /\ f.url # feedConfigs[last.name].url

C11_Step ==
    /\ (last'.op = "fetched" /\ ~last'.ok) =>
          /\ feeds' = feeds
          /\ feedKeys' = feedKeys
          /\ feedConfigs' = feedConfigs
          /\ refreshIntervals' = refreshIntervals
          /\ liveTimers' = liveTimers
          /\ last'.raised = (last'.origin = "manual")
    /\ (last'.op = "refresh" /\ ~last'.ok) =>
          /\ last'.raised
          /\ UNCHANGED <<feeds, feedKeys, feedConfigs, refreshIntervals, liveTimers>>

\* C11: a refresh whose fetch or parse fails leaves the name's snapshot (or
\* its absence), its config and its timer exactly as they were; the error
\* is returned to the caller of an explicit refresh and only logged for a
\* refresh started by the timer or by addFeed.
C11_FailedRefreshChangesNothing ==
    [][C11_Step]_vars

\* A refresh started by the timer has just failed for a registered feed
\* that has a cached snapshot.
C11_Witness ==
    /\ last.op = "fetched" /\ ~last.ok /\ last.origin = "timer"
    /\ Has(feeds, last.name) /\ Has(feedConfigs, last.name)

C17_Step ==
    /\ last'.op = "add" =>
          LET n == last'.name
              cfgB == WithDefaults(n, last'.cfg[1])
          IN  /\ feedConfigs'[n] = cfgB
              /\ {t \in liveTimers' : t.name = n} =
                     {[id |-> refreshIntervals'[n], name |-> n,
                       interval |-> cfgB.refreshInterval]}
    /\ last'.op = "fetched" =>
          /\ feedConfigs' = feedConfigs
          /\ liveTimers' = liveTimers
          /\ refreshIntervals' = refreshIntervals

\* C17: after addFeed(n, cfgB), whether or not the initial refresh of an
\* earlier addFeed(n, cfgA) is still in flight, the stored config of n is
\* cfgB with the defaults applied and n has exactly one live timer, with
\* cfgB's interval; the completion of a refresh, in any order, changes
\* neither the configs nor the timers.
C17_LastConfigWinsWithOneTimer ==
    [][C17_Step]_vars

\* The initial refresh of a replaced config has just completed, after the
\* update and after the initial refresh of the update: nothing is in flight
\* for the name and the snapshot carries the replaced url.
C17_Witness ==
    /\ last.op = "fetched" /\ last.ok /\ last.origin = "add" /\ last.had
    /\ \A f \in BagToSet(fetches) : f.name # last.name
    /\ feeds[last.name].feedUrl # feedConfigs[last.name].url
    /\ Cardinality(TimersOf(last.name)) = 1

\* The first n items of a sequence (none when n is not positive).
FirstItems(s, n) == SubSeq(s, 1, IF n < Len(s) THEN n ELSE Len(s))

C18_Step ==
    \A f \in BagToSet(fetches), k \in 0..MaxSourceItems :
        FetchSucceeds(f, k) =>
            feeds'[f.name].items = FirstItems(SourceItems(k), f.maxItems)

\* C18: a successful refresh of a feed with maxItems = N whose source
\* returns k items stores exactly the first min(N, k) of them, in source
\* order, for every N addFeed accepts.
C18_StoresFirstMinNKItems ==
    [][C18_Step]_vars

C19_Common ==
    /\ last'.op = "add" =>
          /\ last'.ok /\ ~last'.raised
          /\ \E f \in BagToSet(fetches') : f.name = last'.name /\ f.origin = "add"
    /\ (last'.op = "fetched" /\ last'.origin = "add") =>
          /\ ~last'.raised
          /\ feedConfigs' = feedConfigs
          /\ liveTimers' = liveTimers
          /\ refreshIntervals' = refreshIntervals

C19_StepAsClaimed ==
    /\ C19_Common
    /\ (last'.op = "fetched" /\ last'.origin = "add" /\ ~last'.ok) =>
          ~Has(feeds', last'.name)

C19_StepAmended ==
    /\ C19_Common
    /\ (last'.op = "fetched" /\ last'.origin = "add" /\ ~last'.ok) =>
          /\ feeds' = feeds
          /\ feedKeys' = feedKeys

\* C19 (as claimed): addFeed never raises and returns with the fetch still
\* in flight; the outcome of the initial refresh changes neither the config
\* nor the timer; when the initial refresh of a new name fails, no snapshot
\* exists for that name.
C19_FailedInitialRefreshLeavesNoSnapshot ==
    [][C19_StepAsClaimed]_vars

\* C19 (amended): addFeed never raises and returns with the fetch still in
\* flight; the outcome of the initial refresh changes neither the config
\* nor the timer; when the initial refresh of a new name fails, the
\* snapshot store is left as it was: the name has no snapshot unless another
\* refresh stored one in the meantime.
C19_FailedInitialRefreshStoresNothing ==
    [][C19_StepAmended]_vars

\* The initial refresh of a new name has just failed while the name has a
\* snapshot and is still registered with its timer.
C19_Witness ==
    /\ last.op = "fetched" /\ ~last.ok /\ last.origin = "add"
    /\ Has(feeds, last.name)
    /\ Has(feedConfigs, last.name)
    /\ Cardinality(TimersOf(last.name)) = 1

\* The matching items feed by feed in the order of names, within a
\* feed in snapshot order.
RECURSIVE InOrderOf(_, _)
InOrderOf(names, lq) ==
    IF names = <<>> THEN <<>>
    ELSE (IF Has(feeds, Head(names))
          THEN SelectSeq(ItemsOf(Head(names)), LAMBDA item : Includes(item, lq))
          ELSE <<>>)
             \o InOrderOf(Tail(names), lq)

\* C20: search(query) returns the matching items ordered by feed in the
\* order the feeds were registered and, within a feed, in snapshot order,
\* with nothing ranked or deduplicated.
C20_SearchInRegistrationOrder ==
    \A q \in Queries : searchFeeds(q) = InOrderOf(NameOrder, toLowerCase(q))

\* C21 (as claimed): against the snapshots of any state search is
\* case-insensitive: for every query q, search(q), search(uppercase q) and
\* search(lowercase q) return the same items in the same order.
C21_SearchIgnoresCase ==
    \A q \in Queries :
        /\ searchFeeds(q) = searchFeeds(toLowerCase(q))
        /\ searchFeeds(q) = searchFeeds(toUpperCase(q))

\* C21 (amended): for every query q, search(q) and search(lowercase q)
\* return the same items in the same order, and so does search(uppercase q)
\* whenever lower-casing the upper-cased q gives the lower-cased q; an item
\* is returned exactly when the lower-cased q occurs in its lower-cased
\* title, content or snippet.
C21_SearchIgnoresCaseOfRoundTripQueries ==
    \A q \in Queries :
        /\ searchFeeds(q) = searchFeeds(toLowerCase(q))
        /\ toLowerCase(toUpperCase(q)) = toLowerCase(q) =>
               searchFeeds(q) = searchFeeds(toUpperCase(q))
        /\ \A n \in DOMAIN feeds : \A j \in 1..Len(feeds[n].items) :
               (\E r \in 1..Len(searchFeeds(q)) :
                     searchFeeds(q)[r] = <<n, feeds[n].items[j]>>)
                  <=> toLowerCase(q) \in Mentions(feeds[n].items[j])

\* Two feeds have snapshots, a query in capitals finds items in both, and an
\* item that carries U+00DF is cached.
C21_Witness ==
    /\ Len(feedKeys) = 2
    /\ Len(searchFeeds("RSS")) >= 2
    /\ searchFeeds("eszett") # <<>>

C28_Step ==
    (last'.op = "refresh" /\ ~Has(feedConfigs, last'.name)) =>
        /\ ~last'.ok
        /\ last'.raised
        /\ fetches' = fetches
        /\ UNCHANGED <<feedConfigs, feeds, feedKeys, refreshIntervals, liveTimers>>

\* C28: refresh(name) on a name with no config fails with an error returned
\* to the caller, starts no fetch and leaves configs, snapshots and timers
\* unchanged.
C28_RefreshOfUnregisteredNameFails ==
    [][C28_Step]_vars

\* refresh has just failed for an unregistered name while another feed is
\* registered and a fetch is in flight.
C28_Witness ==
    /\ last.op = "refresh" /\ ~last.ok /\ last.raised
    /\ ~Has(feedConfigs, last.name)
    /\ feedConfigs # EmptyMap
    /\ fetches # EmptyBag

C29_Step ==
    (last'.op = "remove" /\ ~Has(feedConfigs, last'.name)) =>
        /\ last'.ok /\ ~last'.raised
        /\ UNCHANGED <<feedConfigs, feeds, feedKeys, refreshIntervals, liveTimers,
                       fetches>>

\* C29: remove(name) on a name with no config raises no error and leaves
\* the whole registry unchanged; getSnapshot and getFeedItems of a name that
\* has no config return not-found (null, empty) instead of failing.
C29_UnknownNameIsNotFound ==
    /\ [][C29_Step]_vars
    /\ [](\A n \in AskedNames :
             ~Has(feedConfigs, n) =>
                 getFeed(n) = None /\ getFeedItems(n) = <<>>)

\* C30: the list-feeds tool lists exactly the names that have a config.
C30_ListFeedsListsConfiguredFeeds ==
    listFeeds = DOMAIN feedConfigs

(***************************************************************************)
(* Properties of the protocol adapter.                                     *)
(***************************************************************************)
Events == {trace[k] : k \in 1..Len(trace)}

\* The events in which a request listener ran to its end.
Completed(e) ==
    e.kind \in {"request", "synthetic", "settled"} /\ e.outcome # "pending"

IsErrorLine(w, message) ==
    \/ w.shape = "native" /\ w.native.type = "error" /\ w.native.message = message
    \/ w.shape = "jsonrpc" /\ w.member = "error" /\ w.message = message

\* C1: for every Request event the transport emits, the Router calls
\* transport.send exactly once, once the handler it invoked has settled.
C1_ExactlyOneSendPerRequest ==
    \A e \in Events : Completed(e) => Len(e.wires) = 1

\* C2: every failure raised while dispatching a Request, whatever value is
\* thrown, is caught in the listener and answered with one error Response
\* carrying the failure's message; nothing escapes the listener.
C2_EveryFailureAnsweredWithError ==
    \A e \in Events :
        e.thrown # "" =>
            /\ e.outcome = "sent"
            /\ Len(e.wires) = 1
            /\ IsErrorLine(e.wires[1], e.message)

\* C3: every Response to an enveloped Request with id k is written in the
\* enveloped shape with id k, on success and on error, whatever the order
\* in which the handlers of the Requests in flight complete.
C3_EnvelopedRequestAnsweredWithItsId ==
    \A e \in Events :
        (e.req.jsonrpc = "2.0" /\ e.req.id # None) =>
            \A i \in 1..Len(e.wires) :
                /\ e.wires[i].shape = "jsonrpc"
                /\ e.wires[i].member \in {"result", "error"}
                /\ e.wires[i].id = e.req.id

\* An enveloped Request is answered while a Request received before it is
\* still waiting for its handler.
C3_Witness ==
    \E e \in Events :
        /\ e.kind = "settled" /\ e.overtook
        /\ e.req.jsonrpc = "2.0" /\ e.req.id # None
        /\ Len(e.wires) = 1

\* The line of an event was parsed and carried jsonrpc "2.0".
EnvelopedLine(e) ==
    /\ e.kind \in {"request", "notification"}
    /\ e.text # ""
    /\ JsonOf(e.text).jsonrpc = "2.0"

\* Whether an enveloped line had been parsed by the time the k-th event of
\* the next state's trace happened.
CommittedBy(k) ==
    isJsonRpc \/ \E j \in 1..k : EnvelopedLine(trace'[j])

C4_Step ==
    /\ isJsonRpc' = CommittedBy(Len(trace'))
    /\ \A k \in 1..Len(trace') :
          \A i \in 1..Len(trace'[k].wires) :
              LET e == trace'[k]
                  w == e.wires[i]
              IN  IF CommittedBy(k)
                  THEN w.shape = "jsonrpc" /\ w.member \in {"result", "error"}
                  ELSE w.shape = "native" /\ w.native = e.response

\* C4: the dialect flag starts native, is set by the first parsed line
\* carrying jsonrpc "2.0" (a notification included) and is never reset;
\* every Response sent while it is native is written as the native object
\* unchanged, every Response sent after it is set in the enveloped shape.
C4_DialectFlagMonotone ==
    ~isJsonRpc /\ [][C4_Step]_vars

\* In one chunk a Response was written natively and, after a later line
\* committed the dialect, another in the enveloped shape.
C4_Witness ==
    \E j, k \in 1..Len(trace) :
        /\ j < k
        /\ trace[j].wires # <<>> /\ trace[j].wires[1].shape = "native"
        /\ trace[k].wires # <<>> /\ trace[k].wires[1].shape = "jsonrpc"

\* The event emitted a handshake Request: an initialize read from the input
\* or a synthetic one.
IsHandshake(e) ==
    \/ e.kind = "synthetic"
    \/ e.kind = "request" /\ e.req.type = "initialize"

\* Whether a handshake Request had been emitted in the session before the
\* k-th event of the next state's trace.
HandshakeBefore(k) ==
    initializedEmitted \/ \E j \in 1..(k - 1) : IsHandshake(trace'[j])

\* Whether a line was handled in the session before the k-th event of the
\* next state's trace, as far as the callback that ran can tell.
MessageBefore(k) == \E j \in 1..(k - 1) : trace'[j].kind # "empty"

C12_Step ==
    \A k \in 1..Len(trace') :
        trace'[k].kind = "synthetic" => ~HandshakeBefore(k)

\* C12: a synthetic initialize Request is only ever emitted while no
\* handshake Request has been observed, be it by the timer of ready() or by
\* the parse-failure recovery: ready() causes none once a handshake was
\* observed within the grace window, and a session sees at most one.
C12_SyntheticInitializeOnlyWithoutHandshake ==
    [][C12_Step]_vars

\* The events of a chunk that handled a line that failed to parse.
IsParseFailure(e) == e.kind \in {"synthetic", "dropped"}

C13_Step ==
    (readyTimer' = readyTimer) =>
        \A k \in 1..Len(trace') :
            (IsParseFailure(trace'[k]) /\ MessageBefore(k)) =>
                /\ trace'[k].kind = "dropped"
                /\ trace'[k].wires = <<>>

\* C13: a malformed line that is not the first message of the session is
\* dropped, with no Request and no Response, whatever preceded it.
C13_LaterMalformedLineDropped ==
    [][C13_Step]_vars

C14_Step ==
    (readyTimer' = readyTimer) =>
        \A k \in 1..Len(trace') :
            LET e == trace'[k]
            IN  /\ e.text = "bad" => IsParseFailure(e)
                /\ IsParseFailure(e) =>
                      IF HandshakeBefore(k)
                      THEN /\ e.kind = "dropped"
                           /\ e.req = NoJson
                           /\ e.wires = <<>>
                      ELSE /\ e.kind = "synthetic"
                           /\ e.req = SyntheticInitialize
                           /\ e.outcome = "sent"
                           /\ Len(e.wires) = 1
                           /\ e.response.type = "initialize_result"

C15_NotificationNeverAnswered ==
    \A e \in Events :
        (e.text = "eNote" /\ e.kind \in {"request", "notification"}) =>
                /\ e.kind = "notification"
                /\ e.req = NoJson
                /\ e.response = NoResponse
                /\ e.wires = <<>>
                /\ e.outcome = "none"

\* A notification was read after another line of the same chunk, while a
\* Request is waiting for its handler.
C15_Witness ==
    /\ pending # <<>>
    /\ \E k \in 2..Len(trace) : trace[k].kind = "notification"

\* The lines whose dispatch fails in the Router: an unregistered tool or
\* resource, a name that is not a string, an unrecognised type.
DispatchFailures == {"nGhost", "nGhostRes", "nNoName", "nProto", "nUnknownType",
                     "eGhost", "eUnknown"}
RouterErrors == {"not found", "name must be a string", "handler is not a function",
                 "Unknown request type"}

\* C16: dispatching a tool or resource Request that names nothing
\* registered, one whose name is not a string, or a Request of an
\* unrecognised type yields exactly one error Response; no handler is
\* invoked, nothing escapes the listener, and the Router's tables are as
\* they were registered.
C16_DispatchFailureAnsweredOnce ==
    /\ tools = RegisteredTools /\ resources = RegisteredResources
    /\ \A e \in Events :
          (e.kind = "request" /\ e.text \in DispatchFailures) =>
              /\ e.outcome = "sent"
              /\ e.thrown = "Error"
              /\ e.message \in RouterErrors
              /\ Len(e.wires) = 1
              /\ IsErrorLine(e.wires[1], e.message)

\* An enveloped Request for an unregistered tool was answered with an error
\* while a handler that would throw is registered and another Request is
\* waiting for its handler.
C16_Witness ==
    /\ pending # <<>>
    /\ \E e \in Events :
          /\ e.text = "eGhost"
          /\ Len(e.wires) = 1 /\ e.wires[1].member = "error"
          /\ e.wires[1].id = Some(2)

\* C5: after the data handler returns, every complete line received so far
\* has been consumed: the buffer holds only the trailing partial line, with
\* no line terminator in it.
C5_BufferHoldsOnlyPartialLine ==
    \A i \in 1..Len(buffer) : buffer[i] # NL


(***************************************************************************)
(* Properties of the registry and the adapter together.                    *)
(***************************************************************************)
AnyInFlight(name) == \E f \in BagToSet(fetches) : f.name = name

\* C22: while the source of one feed never answers, every refresh in flight
\* for another feed completes and replaces that feed's snapshot, and every
\* Request waiting for its handler is answered.
C22_StalledFeedStallsNothingElse ==
    /\ \A n \in Names \ {StalledName} :
          (AnyInFlight(StalledName) /\ AnyInFlight(n))
              ~> (last.op = "fetched" /\ last.ok /\ last.name = n /\ Has(feeds, n))
    /\ (AnyInFlight(StalledName) /\ pending # <<>>)
          ~> (\E e \in Events : e.kind = "settled" /\ Len(e.wires) = 1)

\* With the initial refresh of the stalled feed still in flight, a refresh
\* started by the timer of the other feed has completed and a tool call has
\* been answered.
C22_Witness ==
    /\ CountInFlight(StalledName, "add") = 1
    /\ last.op = "fetched" /\ last.ok /\ last.name # StalledName
    /\ last.origin = "timer"
    /\ \E e \in Events : e.kind = "settled" /\ Len(e.wires) = 1

(***************************************************************************)
(* Properties of the Router's tables and of send                           *)
(***************************************************************************)

\* The capability table that has one entry for every registered tool and
\* resource, with its description and parameter shape, and no other.
Mirror(toolTable, resourceTable) ==
    Capabilities([n \in DOMAIN toolTable |->
                     ToolCapability(toolTable[n].description, toolTable[n].params)],
                 [n \in DOMAIN resourceTable |->
                     ResourceCapability(resourceTable[n].description)])

\* C23: in every reachable state of a server the capability table mirrors
\* the registered tools and resources (names, descriptions, parameter
\* shapes), whatever capabilities object the constructor was given.
C23_CapabilitiesMirrorRegistrations == capabilities = Mirror(tools, resources)

\* C24: a tool registration leaves exactly one entry under its name, with
\* the description, parameter shape and handler of that call, in the tool
\* table and in the capability table, and every other entry as it was; a
\* registration that repeats the arguments of the entry leaves both tables
\* as they were.
C24_Step ==
    \A n \in ToolNames, a \in ToolArguments :
        tool(n, a[1], a[2], a[3]) =>
            /\ DOMAIN tools' = DOMAIN tools \cup {n}
            /\ tools'[n] = Tool(n, a[1], a[2], a[3])
            /\ \A m \in DOMAIN tools \ {n} : tools'[m] = tools[m]
            /\ DOMAIN capabilities'.tools = DOMAIN capabilities.tools \cup {n}
            /\ capabilities'.tools[n] = ToolCapability(a[1], a[2])
            /\ \A m \in DOMAIN capabilities.tools \ {n} :
                  capabilities'.tools[m] = capabilities.tools[m]
            /\ capabilities'.resources = capabilities.resources
            /\ resources' = resources
            /\ (Has(tools, n) /\ tools[n] = Tool(n, a[1], a[2], a[3])) =>
                  tools' = tools /\ capabilities' = capabilities

C24_ReRegistrationOverwrites == [][C24_Step]_vars

\* A tool was registered again with another handler while another tool is
\* registered.
C24_Witness ==
    /\ \E e \in Events :
          /\ e.kind = "tool" /\ e.outcome = "replaced"
          /\ tools[e.text] = Tool(e.text, "d1", "p1", "h2")
          /\ \E m \in DOMAIN tools : m # e.text

\* What a line written to stdout carries.
ContentOf(w) == IF w.shape = "native" THEN w.native.content ELSE w.content

\* C25: a tools/list Request is answered with one {name, description,
\* parameters} entry for every registered tool and no other entry, a
\* capabilities Request with the capability table, an initialize Request
\* or a Request with no type with the server's name and version.
C25_AnswersTellWhatIsRegistered ==
    \A e \in Events :
        e.kind = "request" =>
            /\ Len(e.wires) = 1
            /\ e.req.type = "tools/list" =>
                  ContentOf(e.wires[1]).list =
                      {[name |-> n, description |-> tools[n].description,
                        parameters |-> tools[n].params] : n \in DOMAIN tools}
            /\ e.req.type = "capabilities" =>
                  ContentOf(e.wires[1]).capabilities = capabilities
            /\ e.req.type \in {"initialize", ""} =>
                  ContentOf(e.wires[1]).server = ServerInfo

\* An enveloped tools/list Request was answered while two tools are
\* registered, one of them registered more than once.
C25_Witness ==
    /\ Cardinality(DOMAIN tools) = 2
    /\ tools["get-feed"].handler = "h2"
    /\ \E e \in Events :
          /\ e.text = "eList"
          /\ Cardinality(e.wires[1].content.list) = 2

\* C26, as claimed: every error Response written in the enveloped shape
\* has code -32603 and the message of the failure that produced it.
C26_EnvelopedErrorCarriesFailureMessage ==
    \A e \in Events :
        \A i \in 1..Len(e.wires) :
            (e.wires[i].shape = "jsonrpc" /\ e.wires[i].member = "error") =>
                /\ e.wires[i].code = -32603
                /\ e.wires[i].message = e.message

\* C26, amended: every error Response written in the enveloped shape has
\* code -32603, whatever kind of failure produced it, and the message of
\* that failure, or "Unknown error" when that message is empty.
C26_EnvelopedErrorCarriesMessageOrUnknown ==
    \A e \in Events :
        \A i \in 1..Len(e.wires) :
            (e.wires[i].shape = "jsonrpc" /\ e.wires[i].member = "error") =>
                /\ e.wires[i].code = -32603
                /\ e.wires[i].message =
                      IF e.message = "" THEN "Unknown error" ELSE e.message

\* The promise of a handler was rejected with an Error whose message is
\* empty, and the error was written in the enveloped shape with its id.
C26_Witness ==
    \E e \in Events :
        /\ e.kind = "settled" /\ e.thrown = "Error" /\ e.message = ""
        /\ Len(e.wires) = 1 /\ e.wires[1].shape = "jsonrpc"
        /\ e.wires[1].member = "error" /\ e.wires[1].id # None
        /\ e.wires[1].message = "Unknown error"

\* C27: transport.send never throws to its caller: while stdout throws,
\* nothing is written, no listener sees a failure of send, and a callback
\* that only sends leaves the buffer, the dialect flag and the handshake
\* flag as they were.
C27_Step ==
    stdoutThrows =>
        \A k \in 1..Len(trace') :
            /\ trace'[k].wires = <<>>
            /\ trace'[k].message # WriteFailure
            /\ trace'[k].outcome = "escaped" => trace'[k].thrown = "null"
            /\ trace'[k].thrown = "" => trace'[k].response.type # "error"
            /\ trace'[k].kind = "settled" =>
                  /\ buffer' = buffer
                  /\ isJsonRpc' = isJsonRpc
                  /\ initializedEmitted' = initializedEmitted

C27_SendNeverThrows == [][C27_Step]_vars

\* The result of a handler and the error of another were handed to send
\* while stdout threw.
C27_Witness ==
    /\ stdoutThrows
    /\ \E e \in Events :
          /\ e.kind = "settled" /\ e.outcome = "sent"
          /\ e.response.type = "tool_result" /\ e.wires = <<>>

(***************************************************************************)
(* Properties of the MCP client and of refreshes that race                  *)
(***************************************************************************)

\* How often an id occurs in a sequence of ids.
Occurrences(seq, id) == Cardinality({i \in 1..Len(seq) : seq[i] = id})

\* C31: every response line of a data event whose id matches a pending
\* request resolves that request's promise, once, and removes it from the
\* pending set, also when the event carries several lines; a promise is
\* resolved only by a line with its id; ids only grow.
C31_Step ==
    /\ requestId' >= requestId
    /\ requestCallbacks' \ requestCallbacks \subseteq {requestId'} \ {requestId}
    /\ \A id \in 1..MaxRequests : Occurrences(resolved', id) <= 1
    /\ OnStdoutDataStep =>
          \A i \in 1..Len(clientLast'.chunk) :
              LET line == clientLast'.chunk[i]
              IN  (line.part = "full" /\ line.id \in requestCallbacks) =>
                      /\ line.id \notin requestCallbacks'
                      /\ Occurrences(resolved', line.id) = 1
                      /\ Occurrences(resolved, line.id) = 0

C31_EveryMatchingLineResolvesItsRequest == [][C31_Step]_vars

\* C32: start() called while a server process exists spawns no process and
\* keeps the process; when the promise of a start() call is resolved,
\* sendRequest does not fail with 'Server not ready'.
C32_Step ==
    (start /\ serverProcess # 0) =>
        /\ spawned' = spawned
        /\ serverProcess' = serverProcess

C32_ResolvedStartMeansReady ==
    /\ [][C32_Step]_vars
    /\ []((clientLast.op \in {"start", "ready"} /\ clientLast.ok) =>
             (serverProcess # 0 /\ isServerReady))

\* C33: sendRequest called when no server process exists or the client is
\* not ready is rejected, writes nothing to the server, takes no request id
\* and registers no callback.
C33_Step ==
    (sendRequest /\ (serverProcess = 0 \/ ~isServerReady)) =>
        /\ clientLast'.op = "send" /\ ~clientLast'.ok
        /\ requestId' = requestId
        /\ requestCallbacks' = requestCallbacks
        /\ childStdin' = childStdin
        /\ childStdout' = childStdout

C33_NotReadySendRejectedWithoutEffect == [][C33_Step]_vars

\* A request was rejected while a server process exists whose start-up timer
\* has not fired, after an earlier request was accepted and is still pending.
C33_Witness ==
    /\ clientLast.op = "send" /\ ~clientLast.ok
    /\ serverProcess # 0 /\ ~isServerReady
    /\ requestId > 0 /\ requestCallbacks # {}

\* C34: remove(name) cancels no fetch; a fetch that completes for a name
\* without a FeedConfig stores a snapshot, which getSnapshot, getAll and
\* search then return.
C34_Step == last'.op = "remove" => fetches' = fetches

C34_FetchOutlivesRemove ==
    /\ [][C34_Step]_vars
    /\ []((last.op = "fetched" /\ last.ok /\ ~last.had) =>
             /\ getFeed(last.name) # None
             /\ Has(getAllFeeds, last.name)
             /\ \A j \in 1..Len(feeds[last.name].items) :
                   \E q \in Queries : \E r \in 1..Len(searchFeeds(q)) :
                       searchFeeds(q)[r] = <<last.name, feeds[last.name].items[j]>>)

\* A fetch has completed after its feed was removed: the name has no
\* FeedConfig and no timer, and its snapshot is returned by getSnapshot,
\* getAll and search.
C34_Witness ==
    /\ last.op = "fetched" /\ last.ok /\ ~last.had
    /\ ~Has(feedConfigs, last.name)
    /\ ~Has(refreshIntervals, last.name) /\ TimersOf(last.name) = {}
    /\ getFeed(last.name) # None
    /\ Has(getAllFeeds, last.name)
    /\ \E r \in 1..Len(searchFeeds("RSS")) : searchFeeds("RSS")[r][1] = last.name

\* C35: whenever no fetch is in flight for a name and the refresh started
\* last for it has succeeded, the snapshot's source is the url of the stored
\* FeedConfig.  (For the client of SpecUpdates the refresh started last has
\* succeeded once the snapshot's source was the url of the stored config.)
C35_Step ==
    \A n \in Names :
        ( /\ Has(feedConfigs, n) /\ Has(feeds, n)
          /\ feeds[n].feedUrl = feedConfigs[n].url
          /\ Has(feedConfigs', n) /\ feedConfigs'[n] = feedConfigs[n]
          /\ \A f \in BagToSet(fetches') : f.name # n )
        => (Has(feeds', n) /\ feeds'[n].feedUrl = feedConfigs'[n].url)

C35_SnapshotIsOfCurrentConfig == [][C35_Step]_vars

\* C36: every Response written in the enveloped shape carries an id, and
\* that id is the id of the enveloped Request it answers, also when the
\* Request was a synthetic initialize or a native Request in flight when
\* the dialect was committed.
C36_EnvelopedResponseCarriesRequestId ==
    \A e \in Events :
        \A i \in 1..Len(e.wires) :
            e.wires[i].shape = "jsonrpc" =>
                /\ e.wires[i].id # None
                /\ e.req.jsonrpc = "2.0"
                /\ e.wires[i].id = e.req.id

\* The complete lines of an input, in order, and what is left of the input
\* after its first n complete lines.
RECURSIVE LinesIn(_, _)
LinesIn(input, line) ==
    IF input = <<>> THEN <<>>
    ELSE IF Head(input) = NL THEN <<line>> \o LinesIn(Tail(input), <<>>)
    ELSE LinesIn(Tail(input), Append(line, Head(input)))

RECURSIVE After(_, _)
After(input, n) ==
    IF n = 0 \/ input = <<>> THEN input
    ELSE After(Tail(input), IF Head(input) = NL THEN n - 1 ELSE n)

\* The line is the whole of the text t, written at once or in two parts.
WholeLineOf(line, t) ==
    LET runs == SelectSeq(line, LAMBDA a : a # WS)
    IN  runs = <<Atom("text", t)>> \/ runs = <<Atom("head", t), Atom("tail", t)>>

\* C37: however the stream is split into chunks, the lines a data callback
\* handles are, one for one and in order, the first complete lines of what
\* was received and not yet handled; a Request is emitted only for a line
\* that is the whole of one text, and it is the Request of that text; what
\* follows the handled lines stays in the buffer.
C37_Step ==
    (stdin # <<>> /\ stdin' = <<>>) =>
        LET input == buffer \o stdin
            lines == LinesIn(input, <<>>)
        IN  /\ Len(trace') <= Len(lines)
            /\ buffer' = After(input, Len(trace'))
            /\ \A k \in 1..Len(trace') :
                  /\ trace'[k].kind \in {"empty", "request", "notification",
                                         "synthetic", "dropped"}
                  /\ trace'[k].kind = "request" =>
                        /\ WholeLineOf(lines[k], trace'[k].text)
                        /\ trace'[k].req \in
                               {JsonOf(trace'[k].text),
                                ToMcpRequest(JsonOf(trace'[k].text))}

C37_RequestsAreCompleteLinesInOrder == [][C37_Step]_vars

\* One data callback emitted the Requests of two lines and left the first
\* part of a third line in the buffer.
C37_Witness ==
    /\ Cardinality({k \in 1..Len(trace) : trace[k].kind = "request"}) >= 2
    /\ Len(buffer) = 1 /\ buffer[1].c = "head"

\* C38: the client is ready only while a server process exists: after
\* stop() it is not ready until a later start() has completed.
C38_ReadyOnlyWithProcess == isServerReady => serverProcess # 0

\* C39: every promise returned by sendRequest eventually settles and its
\* callback leaves the map, whether the server answers, the client is
\* stopped or the output cannot be parsed.
C39_EveryRequestSettles ==
    \A id \in 1..MaxRequests :
        (id \in requestCallbacks) ~> (id \notin requestCallbacks)

\* C40: the responses delivered do not depend on how the child's output is
\* split into data events: every response line that has arrived whole, in
\* one event or in two, has been delivered to its request.
C40_DeliveryIndependentOfSplit ==
    \A id \in received : Occurrences(resolved, id) = 1

====
